---- MODULE Spec2Model ----
(***************************************************************************)
(* Model of go-cs2-cdn: the directory-listing resolver (internal/parser),  *)
(* the command executor (internal/cmdrunner), and the pipeline             *)
(* orchestrator (cmd/main.go).                                             *)
(*                                                                         *)
(* Text is modelled as a sequence of one-character strings, so that the    *)
(* string functions of the code (Fields, HasPrefix, Atoi, Clean, Sprintf)  *)
(* are computed character by character as the Go library computes them.    *)
(***************************************************************************)
EXTENDS Integers, Sequences, FiniteSets, TLC

\* ------------------------------------------------------------------------
\* Bounds of the model
\* ------------------------------------------------------------------------
\* longest listing (number of lines) fed to the resolver, the two
\* three-line examples apart
MaxLines == 2

\* ------------------------------------------------------------------------
\* Go's strings package on character sequences
\* ------------------------------------------------------------------------
\* unicode.IsSpace, restricted to the ASCII white space
IsSpace(c) == c \in {" ", "\t", "\n", "\r"}

HasPrefix(s, p) == Len(p) <= Len(s) /\ SubSeq(s, 1, Len(p)) = p

HasSuffix(s, x) == Len(x) <= Len(s) /\ SubSeq(s, Len(s) - Len(x) + 1, Len(s)) = x

TrimPrefix(s, p) == IF HasPrefix(s, p) THEN SubSeq(s, Len(p) + 1, Len(s)) ELSE s

TrimSuffix(s, x) == IF HasSuffix(s, x) THEN SubSeq(s, 1, Len(s) - Len(x)) ELSE s

RECURSIVE TrimLeftSpace(_)
TrimLeftSpace(s) ==
    IF s # <<>> /\ IsSpace(Head(s)) THEN TrimLeftSpace(Tail(s)) ELSE s

RECURSIVE TrimRightSpace(_)
TrimRightSpace(s) ==
    IF s # <<>> /\ IsSpace(s[Len(s)])
    THEN TrimRightSpace(SubSeq(s, 1, Len(s) - 1))
    ELSE s

TrimSpace(s) == TrimRightSpace(TrimLeftSpace(s))

\* strings.Fields: the maximal runs of non-space characters, in order
RECURSIVE FieldsFrom(_, _, _, _)
FieldsFrom(s, i, cur, acc) ==
    IF i > Len(s)
    THEN IF cur = <<>> THEN acc ELSE Append(acc, cur)
    ELSE IF IsSpace(s[i])
         THEN FieldsFrom(s, i + 1, <<>>, IF cur = <<>> THEN acc ELSE Append(acc, cur))
         ELSE FieldsFrom(s, i + 1, Append(cur, s[i]), acc)

Fields(s) == FieldsFrom(s, 1, <<>>, <<>>)

\* strings.Split(s, sep) for a non-empty separator: every piece, empty ones
\* included
RECURSIVE SplitFrom(_, _, _, _, _)
SplitFrom(s, sep, i, cur, acc) ==
    IF i > Len(s)
    THEN Append(acc, cur)
    ELSE IF i + Len(sep) - 1 <= Len(s) /\ SubSeq(s, i, i + Len(sep) - 1) = sep
         THEN SplitFrom(s, sep, i + Len(sep), <<>>, Append(acc, cur))
         ELSE SplitFrom(s, sep, i + 1, Append(cur, s[i]), acc)

Split(s, sep) == SplitFrom(s, sep, 1, <<>>, <<>>)

\* strings.ReplaceAll(s, old, new) for a non-empty old
RECURSIVE ReplaceAllFrom(_, _, _, _, _)
ReplaceAllFrom(s, old, new, i, acc) ==
    IF i > Len(s)
    THEN acc
    ELSE IF i + Len(old) - 1 <= Len(s) /\ SubSeq(s, i, i + Len(old) - 1) = old
         THEN ReplaceAllFrom(s, old, new, i + Len(old), acc \o new)
         ELSE ReplaceAllFrom(s, old, new, i + 1, Append(acc, s[i]))

ReplaceAll(s, old, new) == ReplaceAllFrom(s, old, new, 1, <<>>)

\* strings.Join
RECURSIVE JoinStrings(_, _)
JoinStrings(elems, sep) ==
    IF elems = <<>> THEN <<>>
    ELSE IF Len(elems) = 1 THEN elems[1]
    ELSE elems[1] \o sep \o JoinStrings(Tail(elems), sep)

\* ------------------------------------------------------------------------
\* strconv.Atoi and fmt.Sprintf("%03d")
\* ------------------------------------------------------------------------
DigitChars == <<"0", "1", "2", "3", "4", "5", "6", "7", "8", "9">>

IsDigit(c) == \E d \in 1..10 : DigitChars[d] = c

DigitVal(c) == (CHOOSE d \in 1..10 : DigitChars[d] = c) - 1

RECURSIVE DigitsVal(_, _)
DigitsVal(s, acc) ==
    IF s = <<>> THEN acc ELSE DigitsVal(Tail(s), 10 * acc + DigitVal(Head(s)))

\* strconv.Atoi: an optional sign followed by one or more decimal digits
Atoi(s) ==
    LET signed == s # <<>> /\ Head(s) \in {"+", "-"}
        body   == IF signed THEN Tail(s) ELSE s
    IN  IF body = <<>> \/ \E i \in 1..Len(body) : ~IsDigit(body[i])
        THEN [ok |-> FALSE, val |-> 0]
        ELSE [ok |-> TRUE,
              val |-> IF signed /\ Head(s) = "-"
                      THEN 0 - DigitsVal(body, 0)
                      ELSE DigitsVal(body, 0)]

RECURSIVE Itoa(_)
Itoa(n) ==
    IF n < 10 THEN <<DigitChars[n + 1]>>
    ELSE Append(Itoa(n \div 10), DigitChars[(n % 10) + 1])

RECURSIVE ZeroPad(_, _)
ZeroPad(s, width) == IF Len(s) >= width THEN s ELSE ZeroPad(<<"0">> \o s, width)

\* Sprintf03d, were the verb "%d": no padding
Sprintf03d_NoPadding(n) == IF n < 0 THEN <<"-">> \o Itoa(0 - n) ELSE Itoa(n)

\* fmt.Sprintf("%03d", n): zero padding to width 3, the sign counted in
Sprintf03d(n) ==
    IF n < 0 THEN <<"-">> \o ZeroPad(Itoa(0 - n), 2) ELSE ZeroPad(Itoa(n), 3)

\* ------------------------------------------------------------------------
\* path/filepath, by target operating system
\* ------------------------------------------------------------------------
GOOS == {"linux", "windows"}

\* os.PathSeparator
Separator(os) == IF os = "windows" THEN "\\" ELSE "/"

\* os.IsPathSeparator
IsPathSeparator(os, c) == IF os = "windows" THEN c \in {"\\", "/"} ELSE c = "/"

\* the path elements between separators
RECURSIVE ElementsFrom(_, _, _, _, _)
ElementsFrom(os, s, i, cur, acc) ==
    IF i > Len(s)
    THEN Append(acc, cur)
    ELSE IF IsPathSeparator(os, s[i])
         THEN ElementsFrom(os, s, i + 1, <<>>, Append(acc, cur))
         ELSE ElementsFrom(os, s, i + 1, Append(cur, s[i]), acc)

\* the lexical processing of filepath.Clean: drop empty and "." elements,
\* resolve ".." against the preceding element
RECURSIVE CleanElements(_, _, _)
CleanElements(elems, rooted, out) ==
    IF elems = <<>> THEN out
    ELSE LET e == Head(elems) IN
         IF e = <<>> \/ e = <<".">>
         THEN CleanElements(Tail(elems), rooted, out)
         ELSE IF e = <<".", ".">>
              THEN IF out # <<>> /\ out[Len(out)] # <<".", ".">>
                   THEN CleanElements(Tail(elems), rooted, SubSeq(out, 1, Len(out) - 1))
                   ELSE IF rooted
                        THEN CleanElements(Tail(elems), rooted, out)
                        ELSE CleanElements(Tail(elems), rooted, Append(out, e))
              ELSE CleanElements(Tail(elems), rooted, Append(out, e))

\* filepath.Clean (paths without a volume name)
Clean(os, path) ==
    IF path = <<>> THEN <<".">>
    ELSE LET rooted == IsPathSeparator(os, path[1])
             elems  == CleanElements(ElementsFrom(os, path, 1, <<>>, <<>>), rooted, <<>>)
             body   == JoinStrings(elems, <<Separator(os)>>)
             out    == IF rooted THEN <<Separator(os)>> \o body ELSE body
         IN  IF out = <<>> THEN <<".">> ELSE out

\* filepath.ToSlash: the identity where the separator already is a slash
ToSlash(os, path) ==
    IF Separator(os) = "/" THEN path
    ELSE [i \in 1..Len(path) |-> IF path[i] = Separator(os) THEN "/" ELSE path[i]]

\* filepath.Join of two elements
Join(os, a, b) ==
    LET nonEmpty == SelectSeq(<<a, b>>, LAMBDA e : e # <<>>)
    IN  IF nonEmpty = <<>> THEN <<>>
        ELSE Clean(os, JoinStrings(nonEmpty, <<Separator(os)>>))

\* ------------------------------------------------------------------------
\* State
\* ------------------------------------------------------------------------
VARIABLES
    goos,            \* runtime.GOOS of the build
    \* --- resolver harness (GenerateVPKList on drawn inputs) ---
    listing,         \* lines of the directory dump, as bufio.Scanner yields them
    requiredPrefix,  \* the logical path prefix to filter by
    ppc,             \* position inside GenerateVPKList
    fnumbers,        \* slice returned by ParseVPKDir
    plog,            \* log lines ParseVPKDir printed
    vpks,            \* slice returned by MapFNumberToVPK
    vpkBaseDir,      \* the base directory of the segment files
    outFile,         \* lines of the output list file
    perr,            \* error returned by GenerateVPKList ("" for nil)
    \* --- executor harness (DefaultRunner.Run on drawn inputs) ---
    rctx,            \* the context handed to Run
    rproc,           \* what the external program does
    rrace,           \* how the deadline falls relative to the program's end
    rpc,             \* position inside Run
    result,          \* the CommandResult returned
    \* --- streaming executor (PipeOutput on drawn inputs) ---
    spc,             \* position inside PipeOutput
    sproc,           \* what the external program does
    swritten,        \* lines the program has written so far, by stream
    sexited,         \* the program has exited
    spipe,           \* lines written to a pipe and not read yet, by stream
    sclosed,         \* cmd.Wait has closed the read ends of the pipes
    sbuf,            \* lines a scanner has read and not logged yet, by stream
    sreader,         \* state of the reader goroutine, by stream
    sink,            \* <<stream, line>> of every line logged, in order
    sresult,         \* error PipeOutput returned ("none" before it returns)
    \* --- files the pipeline keeps between runs ---
    tools,           \* executables present under tools/
    dataDir,         \* names of the manifest files under data/
    idFile,          \* manifest_id.txt
    static,          \* names of the files under static/
    cdnJson,         \* cdn.json
    \* --- one run of main ---
    pc,              \* the stage main is about to execute
    upstream,        \* the manifest identity the depot currently has
    newManifestID,   \* identity read from the manifest file name
    trackedID,       \* identity read from manifest_id.txt
    fileList,        \* lines of the temporary segment list file
    lastError,       \* error main died of ("nil" while it lives)
    \* --- observation of the run ---
    runs,            \* number of runs started
    last,            \* the stage executed last
    stagesRun,       \* stages executed in this run
    errors,          \* <<stage, operation>> of every operation that failed in this run
    toolCalls,       \* <<stage, context>> of every external program run in this run
    prev,            \* outcome of the previous run, whether it went past
                     \* PersistIdentity, and its upstream identity
    idAtStart,       \* manifest_id.txt when this run started
    cdnHist          \* the last two completed addImagesToCDN calls

varsParser ==
    <<listing, requiredPrefix, vpkBaseDir, ppc, fnumbers, plog, vpks, outFile, perr>>

varsRunner == <<rctx, rproc, rrace, rpc, result>>

varsPipe ==
    <<spc, sproc, swritten, sexited, spipe, sclosed, sbuf, sreader, sink, sresult>>

varsFiles == <<tools, dataDir, idFile, static, cdnJson>>

varsMain == <<pc, upstream, newManifestID, trackedID, fileList, lastError>>

varsObs == <<runs, last, stagesRun, errors, toolCalls, prev, idAtStart, cdnHist>>

vars == <<goos, varsParser, varsRunner, varsPipe, varsFiles, varsMain, varsObs>>

\* every ordering of a finite set: the iteration order of a Go map
Orderings(S) ==
    {q \in [1..Cardinality(S) -> S] : \A x \in S : \E i \in 1..Cardinality(S) : q[i] = x}

Range(q) == {q[i] : i \in 1..Len(q)}

\* ------------------------------------------------------------------------
\* internal/parser: ParseVPKDir, MapFNumberToVPK, WriteVPKList
\* ------------------------------------------------------------------------
\* MinFields, were a path and one more field enough for a data line
MinFields_Two == Len(<<"path", "token">>)

\* the least number of fields of a data line
MinFields == 5

FnumberPrefix == <<"f", "n", "u", "m", "b", "e", "r", "=">>

\* header, summary and blank lines
SkipLine(line) == HasPrefix(line, <<"-", "-", "-">>) \/ TrimSpace(line) = <<>>

\* the prefix test on the normalized path and the normalized prefix
PathMatches(os, filePath, prefix) ==
    LET cleanPath        == ToSlash(os, Clean(os, filePath))
        normalizedPrefix == ToSlash(os, Clean(os, prefix))
    IN  HasPrefix(cleanPath, normalizedPrefix)

\* ExtractFnumber, were a value that does not parse passed over and the
\* loop continued with the next field
RECURSIVE ExtractFnumber_Continues(_, _)
ExtractFnumber_Continues(fields, i) ==
    IF i > Len(fields)
    THEN [fnumber |-> 0, warned |-> FALSE]
    ELSE IF HasPrefix(fields[i], <<"f", "n", "u", "m", "b", "e", "r", "=">>)
            /\ Atoi(TrimPrefix(fields[i], <<"f", "n", "u", "m", "b", "e", "r", "=">>)).ok
         THEN [fnumber |-> Atoi(TrimPrefix(fields[i],
                               <<"f", "n", "u", "m", "b", "e", "r", "=">>)).val,
               warned |-> FALSE]
         ELSE ExtractFnumber_Continues(fields, i + 1)

\* the loop over fields[1:]: the first "fnumber=" field decides, and a
\* value that does not parse leaves fnumber at 0 with a warning
RECURSIVE ExtractFnumber(_, _)
ExtractFnumber(fields, i) ==
    IF i > Len(fields)
    THEN [fnumber |-> 0, warned |-> FALSE]
    ELSE IF HasPrefix(fields[i], FnumberPrefix)
         THEN LET r == Atoi(TrimPrefix(fields[i], FnumberPrefix))
              IN  IF r.ok
                  THEN [fnumber |-> r.val, warned |-> FALSE]
                  ELSE [fnumber |-> 0, warned |-> TRUE]
         ELSE ExtractFnumber(fields, i + 1)

\* one iteration of the scanner loop on line number n
ParseLine(os, st, n, line, prefix) ==
    LET fields == Fields(line) IN
    IF SkipLine(line) THEN st
    ELSE IF Len(fields) < MinFields THEN st
    ELSE IF ~PathMatches(os, fields[1], prefix) THEN st
    ELSE LET x    == ExtractFnumber(fields, 2)
             log1 == IF x.warned
                     THEN Append(st.log, <<"invalid fnumber", line>>)
                     ELSE st.log
         IN  IF x.fnumber # 0
             THEN [fnumberSet   |-> st.fnumberSet \cup {x.fnumber},
                   matchedLines |-> st.matchedLines + 1,
                   log          |-> log1]
             ELSE [fnumberSet   |-> st.fnumberSet,
                   matchedLines |-> st.matchedLines + 1,
                   log          |-> Append(log1, <<"no valid fnumber", line>>)]

RECURSIVE ParseLoop(_, _, _, _, _)
ParseLoop(os, st, n, lines, prefix) ==
    IF n > Len(lines) THEN st
    ELSE ParseLoop(os, ParseLine(os, st, n, lines[n], prefix), n + 1, lines, prefix)

\* ParseVPKDir on a file that opened and scanned without an I/O error
ParseVPKDir(os, lines, prefix) ==
    LET st == ParseLoop(os, [fnumberSet |-> {}, matchedLines |-> 0, log |-> <<>>],
                        1, lines, prefix)
    IN  [fnumberSet |-> st.fnumberSet,
         log        |-> Append(st.log, <<"total matched lines", st.matchedLines>>)]

VpkName(fnum) ==
    <<"p", "a", "k", "0", "1", "_">> \o Sprintf03d(fnum) \o <<".", "v", "p", "k">>

\* the set of paths MapFNumberToVPK collects before it returns them as a slice
MapFNumberToVPK(os, fnums, baseDir) ==
    {Join(os, baseDir, VpkName(fnums[i])) : i \in 1..Len(fnums)}

\* ------------------------------------------------------------------------
\* internal/cmdrunner: DefaultRunner.Run, RunCommand
\* ------------------------------------------------------------------------
\* the timeout of RunCommand, in seconds
Timeout == 60

\* context.Background()
Background == [hasDeadline |-> FALSE, timeout |-> 0]

\* context.WithTimeout(context.Background(), d)
WithTimeout(d) == [hasDeadline |-> TRUE, timeout |-> d]

\* An external program: whether it can be launched, whether and after how
\* many seconds it ends by itself, its exit code, the lines it writes to its
\* two streams in its whole life, and how many of them it has written when a
\* deadline of Timeout seconds strikes.
\*
\* The deadline relative to the program's end (race):
\*   "none"      the deadline does not strike near the end of the program;
\*   "killSent"  the program has ended within the deadline but is not reaped
\*               yet when the deadline strikes, and the kill is delivered:
\*               Wait returns ctx.Err() for a program that exited with 0;
\*   "afterWait" the deadline strikes after Wait has returned and before Run
\*               reads ctx.Err().
Races == {"none", "killSent", "afterWait"}

\* the program is still running when the deadline of ctx strikes
Killed(ctx, proc) ==
    /\ proc.launch
    /\ ctx.hasDeadline
    /\ (~proc.terminates \/ proc.duration > ctx.timeout)

\* cmd.Run never returns: no deadline and a program that never ends
Blocks(ctx, proc) == proc.launch /\ ~ctx.hasDeadline /\ ~proc.terminates

RaceApplies(ctx, proc, race) ==
    race # "none" /\ ctx.hasDeadline /\ ~Killed(ctx, proc)
    /\ (race = "killSent" => proc.launch)

\* err of cmd.Run()
RunErr(ctx, proc, race) ==
    IF ~proc.launch THEN "launch"
    ELSE IF Killed(ctx, proc) THEN "killed"
    ELSE IF proc.exit # 0 THEN "exit"
    ELSE IF RaceApplies(ctx, proc, race) /\ race = "killSent" THEN "ctx"
    ELSE "nil"

\* ctx.Err() when Run reads it
CtxErr(ctx, proc, race) ==
    IF Killed(ctx, proc) \/ RaceApplies(ctx, proc, race)
    THEN "DeadlineExceeded"
    ELSE "nil"

\* what the two buffers hold when cmd.Run returns
Captured(ctx, proc, lines, cut) ==
    IF ~proc.launch THEN <<>>
    ELSE IF Killed(ctx, proc) THEN SubSeq(lines, 1, cut)
    ELSE lines

\* Run, were the context not consulted: every failure is a general one
Run_NoDeadlineCheck(ctx, proc, race) ==
    [Stdout |-> Captured(ctx, proc, proc.out, proc.outCut),
     Stderr |-> Captured(ctx, proc, proc.err, proc.errCut),
     Error  |-> IF RunErr(ctx, proc, race) # "nil"
                THEN "command execution failed" ELSE "nil"]

\* DefaultRunner.Run, for a call that returns
Run(ctx, proc, race) ==
    LET err       == RunErr(ctx, proc, race)
        stdoutStr == Captured(ctx, proc, proc.out, proc.outCut)
        stderrStr == Captured(ctx, proc, proc.err, proc.errCut)
    IN  IF err # "nil"
        THEN IF CtxErr(ctx, proc, race) = "DeadlineExceeded"
             THEN [Stdout |-> stdoutStr, Stderr |-> stderrStr,
                   Error |-> "command timed out"]
             ELSE [Stdout |-> stdoutStr, Stderr |-> stderrStr,
                   Error |-> "command execution failed"]
        ELSE [Stdout |-> stdoutStr, Stderr |-> stderrStr, Error |-> "nil"]

\* RunCommandContext, were RunCommand to set no timeout
RunCommandContext_NoTimeout == Background

\* the context RunCommand builds
RunCommandContext == WithTimeout(Timeout)

\* RunCommand: Run under the default timeout
RunCommand(proc, race) == Run(RunCommandContext, proc, race)

\* ------------------------------------------------------------------------
\* cmd/main.go: the files and the pure steps of main
\* ------------------------------------------------------------------------
\* the characters of the file names, in increasing byte order
ByteOrder ==
    <<".", "/", "0", "1", "2", "3", "4", "5", "6", "7", "8", "9",
      "G", "N", "P", "\\", "_",
      "a", "b", "c", "d", "e", "f", "g", "h", "i", "j", "k", "l", "m",
      "n", "o", "p", "q", "r", "s", "t", "u", "v", "w", "x", "y", "z">>

ByteOf(c) == CHOOSE i \in 1..Len(ByteOrder) : ByteOrder[i] = c

\* the order of Go strings: byte-wise lexicographic
RECURSIVE StringLess(_, _)
StringLess(a, b) ==
    IF b = <<>> THEN FALSE
    ELSE IF a = <<>> THEN TRUE
    ELSE IF Head(a) = Head(b) THEN StringLess(Tail(a), Tail(b))
    ELSE ByteOf(Head(a)) < ByteOf(Head(b))

\* sort.Strings of a set of distinct strings
SortStrings(S) ==
    CHOOSE q \in Orderings(S) : \A i \in 1..(Len(q) - 1) : StringLess(q[i], q[i + 1])

\* the name DepotDownloader gives the manifest of depot 2347770
ManifestFile(id) == <<"d", "a", "t", "a", "/", "m", "a", "n", "i", "f", "e", "s", "t", "_", "2", "3", "4", "7", "7", "7", "0", "_">> \o id \o <<".", "t", "x", "t">>

\* filepath.Glob("data/manifest_*"): the matching names, sorted
Glob(dir) == SortStrings(dir)

\* main.go:59-63: the identity is the third "_"-separated part of the name,
\* without ".txt"; fewer than three parts is fatal
ManifestID(manifestFile) ==
    LET parts == Split(manifestFile, <<"_">>)
    IN  IF Len(parts) < 3
        THEN [ok |-> FALSE, id |-> <<>>]
        ELSE [ok |-> TRUE, id |-> TrimSuffix(parts[3], <<".", "t", "x", "t">>)]

\* a file: whether it exists, and its bytes
NoFile == [exists |-> FALSE, data |-> <<>>]

File(data) == [exists |-> TRUE, data |-> data]

\* main.go fileExists, for a stat that succeeds or reports "not exist"
fileExists(file) == file.exists

\* the directory static/: whether it exists, and the names of its files
NoStatic == [exists |-> FALSE, files |-> {}]

StaticDir(files) == [exists |-> TRUE, files |-> files]

\* IdentityUnchanged, were the gate never to close
IdentityUnchanged_Never(tracked, new) == FALSE

\* IdentityUnchanged, were the gate to close on a changed identity
IdentityUnchanged_Inverted(tracked, new) == tracked # new /\ tracked # <<>>

\* main.go:78: the comparison gate
IdentityUnchanged(tracked, new) == tracked = new /\ tracked # <<>>

AllTools == {"DepotDownloader", "Source2Viewer-CLI"}

\* EnsureTools: a missing tool is downloaded, then every tool is made
\* executable; it fails when a download or a chmod fails
EnsureToolsFails(present, netOK, chmodOK) == (present # AllTools /\ ~netOK) \/ ~chmodOK

\* the constants of main
ImageDir == <<"p", "a", "n", "o", "r", "a", "m", "a", "/", "i", "m", "a", "g", "e", "s", "/", "e", "c", "o", "n">>

BaseDir == <<"g", "a", "m", "e", "/", "c", "s", "g", "o">>

\* PipeOutput, were the exit code not looked at
PipeOutput_IgnoresExit(proc) == IF ~proc.launch THEN "failed to start command" ELSE "nil"

\* PipeOutput: nil, or the error of a program that cannot start or exits
\* nonzero
PipeOutput(proc) ==
    IF ~proc.launch THEN "failed to start command"
    ELSE IF proc.exit # 0 THEN "command execution failed"
    ELSE "nil"

\* strings.ToLower on the letters of the file names
ToLowerChar(c) ==
    IF c = "P" THEN "p" ELSE IF c = "N" THEN "n" ELSE IF c = "G" THEN "g" ELSE c

ToLower(name) == [i \in 1..Len(name) |-> ToLowerChar(name[i])]

DotPng == <<".", "p", "n", "g">>

\* findAndRenameFiles: the new name of an entry of static/
RenamedName(name) ==
    IF HasSuffix(name, DotPng) THEN ReplaceAll(name, <<"_", "p", "n", "g">>, <<>>) ELSE name

\* the path filepath.WalkDir("static") reports for a file of static/
StaticPath(os, name) == Join(os, <<"s", "t", "a", "t", "i", "c">>, name)

\* the text baseURL of addImagesToCDN, kept as one token
baseURL == <<"https://cdn.jsdelivr.net/gh/SkinDelta/go-cs2-cdn@main/">>

\* cdn.json: absent, bytes that are no JSON object, or a JSON object given
\* by its members <<key, value>> in the order of the text
NoCdn == [exists |-> FALSE, valid |-> FALSE, members |-> <<>>]

InvalidCdn == [exists |-> TRUE, valid |-> FALSE, members |-> <<>>]

CdnObject(members) == [exists |-> TRUE, valid |-> TRUE, members |-> members]

\* Unmarshal, were the entries read from cdn.json dropped
Unmarshal_Empty(file) == [k \in {} |-> <<>>]

\* json.Unmarshal into map[string]string: a later member of the same key
\* wins; the error for bytes that are no object is ignored, the map is empty
Unmarshal(file) ==
    IF ~file.valid THEN [k \in {} |-> <<>>]
    ELSE LET m    == file.members
             keys == {m[i][1] : i \in 1..Len(m)}
             lastOf(k) == CHOOSE i \in 1..Len(m) :
                             m[i][1] = k /\ \A j \in 1..Len(m) : m[j][1] = k => j <= i
         IN  [k \in keys |-> m[lastOf(k)][2]]

\* json.MarshalIndent of a map: the members sorted by key
MarshalIndent(entries) ==
    LET keys == SortStrings(DOMAIN entries)
    IN  CdnObject([i \in 1..Len(keys) |-> <<keys[i], entries[keys[i]]>>])

\* the map addImagesToCDN writes: the decoded entries, and baseURL + path
\* for every file under static whose lower-cased name ends in .png
MergedEntries(os, file, files) ==
    LET entries == Unmarshal(file)
        paths   == {StaticPath(os, n) : n \in {f \in files : HasSuffix(ToLower(f), DotPng)}}
    IN  [k \in (DOMAIN entries) \cup paths |->
            IF k \in paths THEN baseURL \o k ELSE entries[k]]

\* ------------------------------------------------------------------------
\* Inputs of the resolver harness
\* ------------------------------------------------------------------------
Line(words) == JoinStrings(words, <<" ">>)

Fnum(digits) == FnumberPrefix \o digits

X == <<"x">>

\* the lines a listing is drawn from
LinePool == <<
    \* data lines of five fields
    Line(<<<<"a", "/", "b", "/", "1">>, X, X, X, Fnum(<<"4", "4">>)>>),
    Line(<<<<"a", "/", "b", "/", "2">>, X, X, X, Fnum(<<"4", "4">>)>>),
    Line(<<<<"c", "/", "d", "/", "x">>, X, X, X, Fnum(<<"7">>)>>),
    \* a path and an fnumber token only
    Line(<<<<"a", "/", "b", "/", "1">>, Fnum(<<"4", "4">>)>>),
    Line(<<<<"a", "/", "b", "/", "2">>, Fnum(<<"4", "4">>)>>),
    Line(<<<<"c", "/", "d", "/", "x">>, Fnum(<<"7">>)>>),
    \* four fields
    Line(<<<<"a", "/", "b", "/", "3">>, X, X, Fnum(<<"5">>)>>),
    \* a value that is no integer, then a valid token
    Line(<<<<"a", "/", "b", "/", "4">>, X, X, Fnum(<<"a", "b", "c">>), Fnum(<<"9">>)>>),
    \* two valid tokens
    Line(<<<<"a", "/", "b", "/", "5">>, X, X, Fnum(<<"3">>), Fnum(<<"4">>)>>),
    \* the path written with back-slashes
    Line(<<<<"a", "\\", "b", "\\", "6">>, X, X, X, Fnum(<<"1", "2">>)>>),
    \* no fnumber token, and the value 0
    Line(<<<<"a", "/", "b", "/", "7">>, X, X, X, X>>),
    Line(<<<<"a", "/", "b", "/", "8">>, X, X, X, Fnum(<<"0">>)>>),
    \* separator and blank lines
    <<"-", "-", "-", " ", "x", " ", "x", " ", "x", " ", "x">>,
    <<" ", "\t">>
>>

\* the example of three entries that are a path and an fnumber token
ExampleShort == <<LinePool[4], LinePool[5], LinePool[6]>>

\* the same entries with five fields each
ExampleLong == <<LinePool[1], LinePool[2], LinePool[3]>>

\* listings: up to MaxLines lines of the pool, in pool order, and the examples
Listings ==
    LET idx == UNION {[1..n -> 1..Len(LinePool)] : n \in 0..MaxLines}
    IN  {[i \in 1..Len(q) |-> LinePool[q[i]]] :
            q \in {r \in idx : \A i \in 1..(Len(r) - 1) : r[i] < r[i + 1]}}
        \cup {ExampleShort, ExampleLong}

Prefixes == {<<"a", "/", "b">>, <<"a", "/", "b", "/">>, <<"a", "\\", "b">>}

BaseDirs == {<<"b", "a", "s", "e">>}

\* ------------------------------------------------------------------------
\* GenerateVPKList, step by step, on drawn inputs
\* ------------------------------------------------------------------------
\* the pipeline at rest, for the harnesses
MainIdle ==
    /\ tools = {}
    /\ dataDir = {}
    /\ idFile = [exists |-> FALSE, data |-> <<>>]
    /\ static = [exists |-> FALSE, files |-> {}]
    /\ cdnJson = [exists |-> FALSE, valid |-> FALSE, members |-> <<>>]
    /\ pc = "idle"
    /\ upstream = <<>>
    /\ newManifestID = <<>>
    /\ trackedID = <<>>
    /\ fileList = <<>>
    /\ lastError = "nil"
    /\ runs = 0
    /\ last = "none"
    /\ stagesRun = {}
    /\ errors = {}
    /\ toolCalls = {}
    /\ prev = [ran |-> FALSE, ok |-> FALSE, passed |-> FALSE, upstream |-> <<>>]
    /\ idAtStart = [exists |-> FALSE, data |-> <<>>]
    /\ cdnHist = <<>>

\* the executor harness at rest
NoResult == [Stdout |-> <<>>, Stderr |-> <<>>, Error |-> "none"]

NoProc ==
    [launch |-> TRUE, terminates |-> TRUE, duration |-> 0, exit |-> 0,
     out |-> <<>>, outCut |-> 0, err |-> <<>>, errCut |-> 0]

RunnerIdle ==
    /\ rctx = Background
    /\ rproc = NoProc
    /\ rrace = "none"
    /\ rpc = "idle"
    /\ result = NoResult

\* the two output streams of a program
Streams == {"stdout", "stderr"}

\* the streaming executor at rest
PipeIdle ==
    /\ spc = "idle"
    /\ sproc = NoProc
    /\ swritten = [s \in Streams |-> 0]
    /\ sexited = FALSE
    /\ spipe = [s \in Streams |-> <<>>]
    /\ sclosed = FALSE
    /\ sbuf = [s \in Streams |-> <<>>]
    /\ sreader = [s \in Streams |-> "none"]
    /\ sink = <<>>
    /\ sresult = "none"

\* the resolver harness at rest
ParserIdle ==
    /\ listing = <<>>
    /\ requiredPrefix = <<>>
    /\ vpkBaseDir = <<>>
    /\ ppc = "idle"
    /\ fnumbers = <<>>
    /\ plog = <<>>
    /\ vpks = <<>>
    /\ outFile = <<>>
    /\ perr = ""

InitParser ==
    /\ goos \in GOOS
    /\ listing \in Listings
    /\ requiredPrefix \in Prefixes
    /\ vpkBaseDir \in BaseDirs
    /\ ppc = "generateVPKDirectory"
    /\ fnumbers = <<>>
    /\ plog = <<>>
    /\ vpks = <<>>
    /\ outFile = <<<<"o", "l", "d">>>>
    /\ perr = ""
    /\ RunnerIdle
    /\ PipeIdle
    /\ MainIdle

\* Source2Viewer-CLI dumps the directory into a temporary file, or fails
RunGenerateVPKDirectory ==
    /\ ppc = "generateVPKDirectory"
    /\ \E ok \in BOOLEAN :
          IF ok
          THEN ppc' = "ParseVPKDir" /\ perr' = perr
          ELSE ppc' = "returned" /\ perr' = "error generating manifest"
    /\ UNCHANGED <<goos, listing, requiredPrefix, vpkBaseDir, fnumbers, plog, vpks, outFile>>

\* ParseVPKDir; no fnumber collected ends GenerateVPKList with nil
RunParseVPKDir ==
    /\ ppc = "ParseVPKDir"
    /\ \E readable \in BOOLEAN :
          IF readable
          THEN LET r == ParseVPKDir(goos, listing, requiredPrefix) IN
               \E q \in Orderings(r.fnumberSet) :
                  /\ fnumbers' = q
                  /\ plog' = r.log
                  /\ ppc' = IF Len(q) = 0 THEN "returned" ELSE "MapFNumberToVPK"
                  /\ perr' = perr
          ELSE /\ ppc' = "returned"
               /\ perr' = "error parsing manifest"
               /\ UNCHANGED <<fnumbers, plog>>
    /\ UNCHANGED <<goos, listing, requiredPrefix, vpkBaseDir, vpks, outFile>>

\* MapFNumberToVPK; no path ends GenerateVPKList with nil
RunMapFNumberToVPK ==
    /\ ppc = "MapFNumberToVPK"
    /\ \E q \in Orderings(MapFNumberToVPK(goos, fnumbers, vpkBaseDir)) :
          /\ vpks' = q
          /\ ppc' = IF Len(q) = 0 THEN "returned" ELSE "WriteVPKList"
    /\ UNCHANGED <<goos, listing, requiredPrefix, vpkBaseDir, fnumbers, plog, outFile, perr>>

\* WriteVPKList: os.Create truncates, then one path per line is written;
\* a failure leaves what was written before it
RunWriteVPKList ==
    /\ ppc = "WriteVPKList"
    /\ \/ /\ outFile' = vpks
          /\ perr' = perr
       \/ /\ outFile' = outFile
          /\ perr' = "error writing VPK list"
       \/ /\ \E k \in 0..(Len(vpks) - 1) : outFile' = SubSeq(vpks, 1, k)
          /\ perr' = "error writing VPK list"
    /\ ppc' = "returned"
    /\ UNCHANGED <<goos, listing, requiredPrefix, vpkBaseDir, fnumbers, plog, vpks>>

NextParser ==
    \/ RunGenerateVPKDirectory /\ UNCHANGED <<varsRunner, varsPipe, varsFiles, varsMain, varsObs>>
    \/ RunParseVPKDir /\ UNCHANGED <<varsRunner, varsPipe, varsFiles, varsMain, varsObs>>
    \/ RunMapFNumberToVPK /\ UNCHANGED <<varsRunner, varsPipe, varsFiles, varsMain, varsObs>>
    \/ RunWriteVPKList /\ UNCHANGED <<varsRunner, varsPipe, varsFiles, varsMain, varsObs>>

SpecParser == InitParser /\ [][NextParser]_vars

\* ------------------------------------------------------------------------
\* Properties of the resolver (SpecParser)
\* ------------------------------------------------------------------------
\* ParseVPKDir has returned its slice
Parsed == plog # <<>>

\* GenerateVPKList went through ParseVPKDir and MapFNumberToVPK, or ended
\* after ParseVPKDir for want of an fnumber
Resolved == Parsed /\ ppc \in {"WriteVPKList", "returned"}

NoDuplicates(q) == Cardinality(Range(q)) = Len(q)

\* the positions of the "fnumber=" fields after the path
FnumberFields(fields) == {j \in 2..Len(fields) : HasPrefix(fields[j], FnumberPrefix)}

FirstFnumberField(fields) ==
    fields[CHOOSE j \in FnumberFields(fields) : \A k \in FnumberFields(fields) : j <= k]

\* the text after "fnumber=" of the first such field is not an integer
InvalidFirstFnumber(line) ==
    LET fields == Fields(line) IN
    /\ FnumberFields(fields) # {}
    /\ ~Atoi(TrimPrefix(FirstFnumberField(fields), FnumberPrefix)).ok

\* the nonzero fnumbers carried by the entries of at least minFields fields
\* whose path matches the prefix, each read from its first "fnumber=" field
Carried(os, lines, prefix, minFields) ==
    {Atoi(TrimPrefix(FirstFnumberField(Fields(lines[i])), FnumberPrefix)).val :
        i \in {k \in 1..Len(lines) :
                 /\ ~SkipLine(lines[k])
                 /\ Len(Fields(lines[k])) >= minFields
                 /\ PathMatches(os, Fields(lines[k])[1], prefix)
                 /\ FnumberFields(Fields(lines[k])) # {}
                 /\ ~InvalidFirstFnumber(lines[k])}} \ {0}

Pad3(n) ==
    IF n < 10 THEN <<"0", "0">> \o Itoa(n)
    ELSE IF n < 100 THEN <<"0">> \o Itoa(n)
    ELSE Itoa(n)

\* base directory, the platform's separator, pak01_<3 digits>.vpk
ExpectedPath(os, baseDir, n) ==
    baseDir \o <<Separator(os)>> \o <<"p", "a", "k", "0", "1", "_">> \o Pad3(n)
            \o <<".", "v", "p", "k">>

BasePak044 ==
    <<"b", "a", "s", "e", "/", "p", "a", "k", "0", "1", "_", "0", "4", "4",
      ".", "v", "p", "k">>

\* C4 (as stated): the listing `a/b/img1 fnumber=44`, `a/b/img2 fnumber=44`,
\* `c/d/x fnumber=7` with prefix a/b and base directory base yields exactly
\* base/pak01_044.vpk; in general the path list has no duplicates and holds
\* one path per distinct fnumber carried by an entry (a path followed by an
\* fnumber token) whose path matches the prefix.
C4_RoundTripAsStated ==
    Resolved =>
        /\ (listing = ExampleShort /\ requiredPrefix = <<"a", "/", "b">>)
               => vpks = <<BasePak044>>
        /\ NoDuplicates(vpks)
        /\ Range(vpks) = {ExpectedPath(goos, vpkBaseDir, n) :
                             n \in Carried(goos, listing, requiredPrefix, 2)}

\* C4 (amended): the same for entries of at least five fields: the listing
\* `a/b/1 x x x fnumber=44`, `a/b/2 x x x fnumber=44`, `c/d/x x x x fnumber=7`
\* with prefix a/b yields exactly <base><separator>pak01_044.vpk
\* (base/pak01_044.vpk where the separator is a slash); in general the path
\* list has no duplicates and holds exactly one path per distinct nonzero
\* fnumber that an entry of at least five fields whose path matches the
\* prefix carries in its first fnumber token, and no other path.
C4_RoundTrip ==
    Resolved =>
        /\ (listing = ExampleLong /\ requiredPrefix = <<"a", "/", "b">>)
               => /\ vpks = <<ExpectedPath(goos, vpkBaseDir, 44)>>
                  /\ goos = "linux" => vpks = <<BasePak044>>
        /\ NoDuplicates(vpks)
        /\ Len(vpks) = Cardinality(Carried(goos, listing, requiredPrefix, 5))
        /\ Range(vpks) = {ExpectedPath(goos, vpkBaseDir, n) :
                             n \in Carried(goos, listing, requiredPrefix, 5)}

C4_Witness ==
    /\ ppc = "WriteVPKList"
    /\ goos = "linux"
    /\ listing = ExampleLong
    /\ requiredPrefix = <<"a", "/", "b">>
    /\ vpks = <<BasePak044>>

\* C5: a line with fewer than 5 fields contributes nothing to what
\* ParseVPKDir returns or logs, whatever it holds, and raises no error: the
\* result is the one of the listing without such lines.
C5_ShortLinesSkipped ==
    Parsed =>
        LET long == SelectSeq(listing, LAMBDA l : Len(Fields(l)) >= 5)
            r    == ParseVPKDir(goos, long, requiredPrefix)
        IN  /\ Range(fnumbers) = r.fnumberSet
            /\ plog = r.log
            /\ perr # "error parsing manifest"

C5_Witness ==
    /\ Parsed
    /\ requiredPrefix = <<"a", "/", "b">>
    /\ listing = <<LinePool[4], LinePool[7]>>
    /\ fnumbers = <<>>

\* the line with every back-slash written as a forward slash
ForwardSlashes(line) == [i \in 1..Len(line) |-> IF line[i] = "\\" THEN "/" ELSE line[i]]

\* C6: the result of ParseVPKDir is the same for the prefixes a/b/, a/b
\* and a\b, and an entry whose path is written with back-slashes matches
\* exactly when the same path written with forward slashes does.
C6_PrefixInvariance ==
    Parsed =>
        /\ Range(fnumbers) = ParseVPKDir(goos, listing, <<"a", "/", "b">>).fnumberSet
        /\ Range(fnumbers) =
              ParseVPKDir(goos, [i \in 1..Len(listing) |-> ForwardSlashes(listing[i])],
                          requiredPrefix).fnumberSet

\* C7: an entry has at most one recognized fnumber, the one of its first
\* "fnumber=" field; a line whose first "fnumber=" field is no integer
\* contributes no fnumber even when a later field is a valid token, a warning
\* is logged for it when it is a matching entry, and the parse goes on with
\* the following lines without an error.
C7_FirstFnumberDecides ==
    Parsed =>
        LET valid == SelectSeq(listing, LAMBDA l : ~InvalidFirstFnumber(l))
        IN  /\ Range(fnumbers) = ParseVPKDir(goos, valid, requiredPrefix).fnumberSet
            /\ Range(fnumbers) = Carried(goos, listing, requiredPrefix, 5)
            /\ \A i \in 1..Len(listing) :
                  (/\ InvalidFirstFnumber(listing[i])
                   /\ Len(Fields(listing[i])) >= 5
                   /\ PathMatches(goos, Fields(listing[i])[1], requiredPrefix))
                  => \E k \in 1..Len(plog) : plog[k] = <<"invalid fnumber", listing[i]>>
            /\ perr # "error parsing manifest"

C7_Witness ==
    /\ Parsed
    /\ requiredPrefix = <<"a", "/", "b">>
    /\ listing = <<LinePool[8], LinePool[9]>>
    /\ fnumbers = <<3>>

\* ------------------------------------------------------------------------
\* DefaultRunner.Run on drawn inputs (SpecRunner)
\* ------------------------------------------------------------------------
OutLines == {<<>>, <<"o1">>, <<"o1", "o2">>}

ErrLines == {<<>>, <<"e1">>}

\* the programs: they end before or after Timeout seconds, or never
Procs ==
    {p \in [launch : BOOLEAN, terminates : BOOLEAN,
            duration : {Timeout - 30, Timeout + 30},
            exit : {0, 1}, out : OutLines, outCut : 0..2,
            err : ErrLines, errCut : 0..1] :
        /\ p.outCut <= Len(p.out)
        /\ p.errCut <= Len(p.err)
        /\ (~p.terminates => p.duration = Timeout + 30 /\ p.exit = 1)
        /\ (~p.launch => /\ p.terminates /\ p.duration = Timeout - 30 /\ p.exit = 1
                         /\ p.out = <<>> /\ p.err = <<>>)}

InitRunner ==
    /\ goos \in GOOS
    /\ ParserIdle
    /\ rctx \in {Background, WithTimeout(Timeout)}
    /\ rproc \in Procs
    /\ rrace \in Races
    /\ (rrace # "none" => RaceApplies(rctx, rproc, rrace))
    /\ rpc = "start"
    /\ result = NoResult
    /\ PipeIdle
    /\ MainIdle

\* exec.CommandContext, the log line, and cmd.Run starts the program
RunStart ==
    /\ rpc = "start"
    /\ rpc' = "running"
    /\ UNCHANGED <<rctx, rproc, rrace, result>>

\* cmd.Run returns and Run builds its CommandResult
RunReturn ==
    /\ rpc = "running"
    /\ ~Blocks(rctx, rproc)
    /\ result' = Run(rctx, rproc, rrace)
    /\ rpc' = "returned"
    /\ UNCHANGED <<rctx, rproc, rrace>>

NextRunner ==
    \/ RunStart /\ UNCHANGED <<goos, varsParser, varsPipe, varsFiles, varsMain, varsObs>>
    \/ RunReturn /\ UNCHANGED <<goos, varsParser, varsPipe, varsFiles, varsMain, varsObs>>

SpecRunner == InitRunner /\ [][NextRunner]_vars

\* the deadline of the context struck: the program was killed by it, or it
\* struck around the program's end
DeadlineExceeded(ctx, proc, race) ==
    /\ ctx.hasDeadline
    /\ \/ ~proc.terminates
       \/ proc.duration > ctx.timeout
       \/ race \in {"killSent", "afterWait"}

\* the deadline interrupted the program
KilledByDeadline(ctx, proc, race) ==
    /\ proc.launch
    /\ ctx.hasDeadline
    /\ (~proc.terminates \/ proc.duration > ctx.timeout \/ race = "killSent")

\* C9: Run reports a failure exactly when the program cannot be launched,
\* exits nonzero or is killed by the deadline; the failure is the timeout
\* kind exactly when the deadline was exceeded and a general execution
\* failure otherwise; a failure result carries the output captured before
\* the failure.
C9_RunFailureKinds ==
    rpc = "returned" =>
        /\ result.Error # "nil" <=>
              (~rproc.launch \/ rproc.exit # 0 \/ KilledByDeadline(rctx, rproc, rrace))
        /\ result.Error = "command timed out" <=>
              (result.Error # "nil" /\ DeadlineExceeded(rctx, rproc, rrace))
        /\ result.Error \in {"nil", "command timed out", "command execution failed"}
        /\ result.Stdout =
              IF ~rproc.launch THEN <<>>
              ELSE IF rproc.terminates /\ (rctx.hasDeadline => rproc.duration <= rctx.timeout)
                   THEN rproc.out
                   ELSE SubSeq(rproc.out, 1, rproc.outCut)
        /\ result.Stderr =
              IF ~rproc.launch THEN <<>>
              ELSE IF rproc.terminates /\ (rctx.hasDeadline => rproc.duration <= rctx.timeout)
                   THEN rproc.err
                   ELSE SubSeq(rproc.err, 1, rproc.errCut)

C9_Witness ==
    /\ rpc = "returned"
    /\ result.Error = "command timed out"
    /\ ~rproc.terminates
    /\ result.Stdout = <<"o1">>
    /\ rproc.out = <<"o1", "o2">>

\* ------------------------------------------------------------------------
\* cmd/main.go: the runs of main (Spec)
\* ------------------------------------------------------------------------
\* most runs of main in a behaviour
MaxRuns == 2

StageOrder ==
    <<"ProvisionTools", "FetchManifest", "ReadLocalIdentity", "CompareIdentity",
      "PersistIdentity", "FetchDirectoryListing", "ResolveSegments", "FetchSegments",
      "ExtractTargetEntries", "RenameOutputs", "PublishURLs">>

StageIndex(st) == CHOOSE i \in 1..Len(StageOrder) : StageOrder[i] = st

\* the identities the depot takes
UpstreamIDs == {<<"5">>, <<"1", "2">>}

\* the programs the tools behave as: not launched, ended with 0 or 1 within
\* the timeout, ended after it, never ending
ToolProcs ==
    {p \in Procs : p.out = <<>> /\ p.err = <<>>
                   /\ (p.duration > Timeout => p.exit = 1)}

\* the directory dumps Source2Viewer-CLI produces
DumpPool == <<
    Line(<<<<"p", "a", "n", "o", "r", "a", "m", "a", "/", "i", "m", "a", "g", "e", "s", "/", "e", "c", "o", "n", "/", "a">>, X, X, X, Fnum(<<"4", "4">>)>>),
    Line(<<<<"p", "a", "n", "o", "r", "a", "m", "a", "/", "i", "m", "a", "g", "e", "s", "/", "e", "c", "o", "n", "/", "b">>, X, X, X, Fnum(<<"1", "8", "7">>)>>),
    Line(<<<<"s", "o", "u", "n", "d", "s", "/", "c">>, X, X, X, Fnum(<<"7">>)>>)
>>

Dumps == {<<>>, <<DumpPool[3]>>, <<DumpPool[1], DumpPool[3]>>, <<DumpPool[1], DumpPool[2]>>}

\* the files Source2Viewer-CLI extracts into static/
Extracted == {{}, {<<"a", "_", "p", "n", "g", ".", "p", "n", "g">>}}

NoHist == <<>>

\* the state a run of main starts in
StartOfRun ==
    /\ pc' = "ProvisionTools"
    /\ newManifestID' = <<>>
    /\ trackedID' = <<>>
    /\ fileList' = <<>>
    /\ lastError' = "nil"
    /\ last' = "none"
    /\ stagesRun' = {}
    /\ errors' = {}
    /\ toolCalls' = {}
    /\ idAtStart' = idFile

Init ==
    /\ goos \in GOOS
    /\ ParserIdle
    /\ RunnerIdle
    /\ PipeIdle
    /\ tools \in {{}, AllTools}
    /\ dataDir \in SUBSET {ManifestFile(id) : id \in UpstreamIDs}
    /\ idFile \in {NoFile, File(<<>>), File(<<"5">>), File(<<"5", "\n">>), File(<<"1", "2">>)}
    /\ static \in {NoStatic, StaticDir({})}
    /\ cdnJson \in {NoCdn, InvalidCdn, CdnObject(<<<<<<"s", "t", "a", "t", "i", "c", "/", "o", "l", "d", ".", "p", "n", "g">>, baseURL \o <<"s", "t", "a", "t", "i", "c", "/", "o", "l", "d", ".", "p", "n", "g">>>>>>)}
    /\ pc = "ProvisionTools"
    /\ upstream \in UpstreamIDs
    /\ newManifestID = <<>>
    /\ trackedID = <<>>
    /\ fileList = <<>>
    /\ lastError = "nil"
    /\ runs = 1
    /\ last = "none"
    /\ stagesRun = {}
    /\ errors = {}
    /\ toolCalls = {}
    /\ prev = [ran |-> FALSE, ok |-> FALSE, passed |-> FALSE, upstream |-> <<>>]
    /\ idAtStart = idFile
    /\ cdnHist = NoHist

\* what every stage records of itself
Executes(stage) ==
    /\ pc = stage
    /\ last' = stage
    /\ stagesRun' = stagesRun \cup {stage}

\* log.Fatalf: the process exits
Fatal(err) == pc' = "fatal" /\ lastError' = err

\* main.go:29 checkDependencies
CheckDependencies ==
    /\ Executes("ProvisionTools")
    /\ \E netOK \in BOOLEAN, chmodOK \in BOOLEAN :
          IF EnsureToolsFails(tools, netOK, chmodOK)
          THEN /\ Fatal("Failed to ensure tools")
               /\ errors' = errors \cup {<<"ProvisionTools", "EnsureTools">>}
               /\ tools' \in {tools, IF netOK THEN AllTools ELSE tools}
          ELSE /\ pc' = "FetchManifest"
               /\ tools' = AllTools
               /\ UNCHANGED <<lastError, errors>>
    /\ UNCHANGED <<dataDir, idFile, static, cdnJson, upstream, newManifestID, trackedID,
                   fileList, runs, toolCalls, prev, idAtStart, cdnHist>>

\* main.go:34-63: the manifest-only fetch, then the identity is read from
\* the name of the first manifest file under data/
FetchManifest ==
    /\ Executes("FetchManifest")
    /\ toolCalls' = toolCalls \cup {<<"FetchManifest", RunCommandContext>>}
    /\ \E proc \in ToolProcs, race \in Races :
          /\ race # "none" => RaceApplies(RunCommandContext, proc, race)
          /\ LET res == RunCommand(proc, race) IN
             IF res.Error # "nil"
             THEN /\ Fatal(res.Error)
                  /\ errors' = errors \cup {<<"FetchManifest", "RunCommand">>}
                  /\ dataDir' \in {dataDir, dataDir \cup {ManifestFile(upstream)}}
                  /\ UNCHANGED newManifestID
             ELSE /\ dataDir' = dataDir \cup {ManifestFile(upstream)}
                  /\ errors' = errors \cup
                        (IF RunErr(RunCommandContext, proc, race) # "nil"
                         THEN {<<"FetchManifest", "RunCommand">>} ELSE {})
                  /\ LET matches == Glob(dataDir') IN
                     IF Len(matches) = 0
                     THEN Fatal("No manifest file found") /\ UNCHANGED newManifestID
                     ELSE LET m == ManifestID(matches[1]) IN
                          IF ~m.ok
                          THEN Fatal("Unexpected manifest file format")
                               /\ UNCHANGED newManifestID
                          ELSE /\ newManifestID' = m.id
                               /\ pc' = "ReadLocalIdentity"
                               /\ UNCHANGED lastError
    /\ UNCHANGED <<tools, idFile, static, cdnJson, upstream, trackedID, fileList,
                   runs, prev, idAtStart, cdnHist>>

\* main.go:68-75: the stored identity, empty when the file is not there
ReadLocalIdentity ==
    /\ Executes("ReadLocalIdentity")
    /\ IF fileExists(idFile)
       THEN \/ /\ trackedID' = TrimSpace(idFile.data)
               /\ pc' = "CompareIdentity"
               /\ UNCHANGED <<lastError, errors>>
            \/ /\ Fatal("Could not read manifest_id.txt")
               /\ errors' = errors \cup {<<"ReadLocalIdentity", "ReadFile">>}
               /\ UNCHANGED trackedID
       ELSE /\ trackedID' = <<>>
            /\ pc' = "CompareIdentity"
            /\ UNCHANGED <<lastError, errors>>
    /\ UNCHANGED <<tools, dataDir, idFile, static, cdnJson, upstream, newManifestID,
                   fileList, runs, toolCalls, prev, idAtStart, cdnHist>>

\* main.go:78-81: main returns when the identity is the stored one
CompareIdentity ==
    /\ Executes("CompareIdentity")
    /\ pc' = IF IdentityUnchanged(trackedID, newManifestID) THEN "done" ELSE "PersistIdentity"
    /\ UNCHANGED <<varsFiles, upstream, newManifestID, trackedID, fileList, lastError,
                   runs, errors, toolCalls, prev, idAtStart, cdnHist>>

\* main.go:87-93: os.WriteFile truncates the file and writes the identity;
\* a failure leaves the file as it was or truncated
PersistIdentity ==
    /\ Executes("PersistIdentity")
    /\ \/ /\ idFile' = File(newManifestID)
          /\ pc' = "FetchDirectoryListing"
          /\ UNCHANGED <<lastError, errors>>
       \/ /\ idFile' \in {idFile, File(<<>>)}
          /\ Fatal("Could not write to manifest_id.txt")
          /\ errors' = errors \cup {<<"PersistIdentity", "WriteFile">>}
    /\ UNCHANGED <<tools, dataDir, static, cdnJson, upstream, newManifestID, trackedID,
                   fileList, runs, toolCalls, prev, idAtStart, cdnHist>>

\* main.go:98-123: the file list naming pak01_dir.vpk is written to a
\* temporary file and DepotDownloader fetches it
FetchDirectoryListing ==
    /\ Executes("FetchDirectoryListing")
    /\ \/ /\ Fatal("Error creating temporary file")
          /\ errors' = errors \cup {<<"FetchDirectoryListing", "CreateTemp">>}
          /\ UNCHANGED toolCalls
       \/ /\ toolCalls' = toolCalls \cup {<<"FetchDirectoryListing", RunCommandContext>>}
          /\ \E proc \in ToolProcs, race \in Races :
                /\ race # "none" => RaceApplies(RunCommandContext, proc, race)
                /\ LET res == RunCommand(proc, race) IN
                   /\ errors' = errors \cup
                         (IF RunErr(RunCommandContext, proc, race) # "nil"
                          THEN {<<"FetchDirectoryListing", "RunCommand">>} ELSE {})
                   /\ IF res.Error # "nil"
                      THEN Fatal(res.Error)
                      ELSE pc' = "ResolveSegments" /\ UNCHANGED lastError
    /\ UNCHANGED <<varsFiles, upstream, newManifestID, trackedID, fileList,
                   runs, prev, idAtStart, cdnHist>>

\* GenerateVPKList, were an empty result reported as an error
NoFnumbersErr_Reported == "no matching image files"

\* parser.go:30-33: the error GenerateVPKList returns when ParseVPKDir has
\* collected no fnumber ("" for nil)
NoFnumbersErr == ""

\* main.go:128-138 and GenerateVPKList: the temporary list file is created,
\* Source2Viewer-CLI dumps the directory (no deadline), ParseVPKDir and
\* MapFNumberToVPK resolve the segment paths and WriteVPKList writes them;
\* without an fnumber GenerateVPKList returns at once and writes nothing
GenerateVPKList ==
    /\ Executes("ResolveSegments")
    /\ \/ /\ Fatal("Error creating temporary file")
          /\ errors' = errors \cup {<<"ResolveSegments", "CreateTemp">>}
          /\ UNCHANGED <<toolCalls, fileList, ppc, perr, fnumbers, vpks>>
       \/ /\ toolCalls' = toolCalls \cup {<<"ResolveSegments", Background>>}
          /\ \E proc \in ToolProcs :
                IF Blocks(Background, proc)
                THEN /\ pc' = "blocked"
                     /\ ppc' = "generateVPKDirectory"
                     /\ UNCHANGED <<lastError, errors, fileList, perr, fnumbers, vpks>>
                ELSE IF ~proc.launch \/ proc.exit # 0
                THEN /\ Fatal("error generating manifest")
                     /\ errors' = errors \cup {<<"ResolveSegments", "generateVPKDirectory">>}
                     /\ ppc' = "returned"
                     /\ perr' = "error generating manifest"
                     /\ UNCHANGED <<fileList, fnumbers, vpks>>
                ELSE \E dump \in Dumps, readable \in BOOLEAN :
                     IF ~readable
                     THEN /\ Fatal("error parsing manifest")
                          /\ errors' = errors \cup {<<"ResolveSegments", "ParseVPKDir">>}
                          /\ ppc' = "returned"
                          /\ perr' = "error parsing manifest"
                          /\ UNCHANGED <<fileList, fnumbers, vpks>>
                     ELSE \E fnums \in Orderings(ParseVPKDir(goos, dump, ImageDir).fnumberSet) :
                          /\ fnumbers' = fnums
                          /\ ppc' = "returned"
                          /\ IF Len(fnums) = 0
                             THEN /\ perr' = NoFnumbersErr
                                  /\ UNCHANGED <<fileList, vpks>>
                                  /\ IF NoFnumbersErr = ""
                                     THEN pc' = "FetchSegments" /\ UNCHANGED <<lastError, errors>>
                                     ELSE /\ Fatal(NoFnumbersErr)
                                          /\ errors' = errors \cup
                                                {<<"ResolveSegments", "GenerateVPKList">>}
                             ELSE \E paths \in Orderings(MapFNumberToVPK(goos, fnums, BaseDir)) :
                                  /\ vpks' = paths
                                  /\ \/ /\ fileList' = paths
                                        /\ perr' = ""
                                        /\ pc' = "FetchSegments"
                                        /\ UNCHANGED <<lastError, errors>>
                                     \/ /\ \E k \in 0..(Len(paths) - 1) :
                                              fileList' = SubSeq(paths, 1, k)
                                        /\ perr' = "error writing VPK list"
                                        /\ Fatal("error writing VPK list")
                                        /\ errors' = errors \cup {<<"ResolveSegments", "WriteVPKList">>}
    /\ UNCHANGED <<listing, requiredPrefix, vpkBaseDir, plog, outFile>>
    /\ UNCHANGED <<varsFiles, upstream, newManifestID, trackedID,
                   runs, prev, idAtStart, cdnHist>>

\* main.go:143-151: DepotDownloader fetches the listed segments, streamed
\* by PipeOutput (no deadline)
FetchSegments ==
    /\ Executes("FetchSegments")
    /\ toolCalls' = toolCalls \cup {<<"FetchSegments", Background>>}
    /\ \E proc \in ToolProcs :
          IF Blocks(Background, proc)
          THEN pc' = "blocked" /\ UNCHANGED <<lastError, errors>>
          ELSE /\ errors' = errors \cup
                     (IF ~proc.launch \/ proc.exit # 0
                      THEN {<<"FetchSegments", "PipeOutput">>} ELSE {})
               /\ IF PipeOutput(proc) # "nil"
                  THEN Fatal(PipeOutput(proc))
                  ELSE pc' = "ExtractTargetEntries" /\ UNCHANGED lastError
    /\ UNCHANGED <<varsFiles, upstream, newManifestID, trackedID, fileList,
                   runs, prev, idAtStart, cdnHist>>

\* main.go:159-167: Source2Viewer-CLI extracts the images into static/,
\* which it creates for the first file, streamed by PipeOutput (no deadline)
ExtractTargetEntries ==
    /\ Executes("ExtractTargetEntries")
    /\ toolCalls' = toolCalls \cup {<<"ExtractTargetEntries", Background>>}
    /\ \E proc \in ToolProcs :
          IF Blocks(Background, proc)
          THEN pc' = "blocked" /\ UNCHANGED <<lastError, errors, static>>
          ELSE /\ errors' = errors \cup
                     (IF ~proc.launch \/ proc.exit # 0
                      THEN {<<"ExtractTargetEntries", "PipeOutput">>} ELSE {})
               /\ \E new \in Extracted :
                     static' = [exists |-> static.exists \/ new # {},
                                files  |-> static.files \cup new]
               /\ IF PipeOutput(proc) # "nil"
                  THEN Fatal(PipeOutput(proc))
                  ELSE pc' = "RenameOutputs" /\ UNCHANGED lastError
    /\ UNCHANGED <<tools, dataDir, idFile, cdnJson, upstream, newManifestID, trackedID,
                   fileList, runs, prev, idAtStart, cdnHist>>

\* findAndRenameFiles: every entry whose name ends in .png loses its "_png";
\* a path that cannot be accessed (static/ is not there) is logged and
\* passed over, a rename that fails is fatal
FindAndRenameFiles ==
    /\ Executes("RenameOutputs")
    /\ IF ~static.exists
       THEN /\ static' = static
            /\ pc' = "PublishURLs"
            /\ errors' = errors \cup {<<"RenameOutputs", "WalkDir">>}
            /\ UNCHANGED lastError
       ELSE \/ /\ static' = StaticDir({RenamedName(n) : n \in static.files})
               /\ pc' = "PublishURLs"
               /\ UNCHANGED <<lastError, errors>>
            \/ /\ \E n \in static.files :
                     /\ RenamedName(n) # n
                     /\ \E renamed \in SUBSET (static.files \ {n}) :
                           static' = StaticDir((static.files \ renamed)
                                               \cup {RenamedName(d) : d \in renamed})
               /\ Fatal("Error walking the path")
               /\ errors' = errors \cup {<<"RenameOutputs", "Rename">>}
    /\ UNCHANGED <<tools, dataDir, idFile, cdnJson, upstream, newManifestID, trackedID,
                   fileList, runs, toolCalls, prev, idAtStart, cdnHist>>

\* what a completed addImagesToCDN adds to the record of the last two
Record(hist, call) == IF Len(hist) < 2 THEN Append(hist, call) ELSE <<hist[2], call>>

\* addImagesToCDN: cdn.json is read (fatal when it cannot be), decoded with
\* the error ignored, merged with the .png files under static (a path that
\* cannot be accessed is logged and passed over) and written back; a write
\* that fails is fatal and leaves the file as it was or truncated
AddImagesToCDN ==
    /\ Executes("PublishURLs")
    /\ \/ /\ ~cdnJson.exists
          /\ Fatal("Error reading cdn.json")
          /\ errors' = errors \cup {<<"PublishURLs", "ReadFile">>}
          /\ UNCHANGED <<cdnJson, cdnHist>>
       \/ /\ cdnJson.exists
          /\ LET merged == MergedEntries(goos, cdnJson, static.files)
                 passed ==
                     (IF cdnJson.valid THEN {} ELSE {<<"PublishURLs", "Unmarshal">>})
                     \cup (IF static.exists THEN {} ELSE {<<"PublishURLs", "WalkDir">>})
             IN  \/ /\ cdnJson' = MarshalIndent(merged)
                    /\ cdnHist' = Record(cdnHist, [static |-> static, before |-> cdnJson,
                                                   after |-> cdnJson'])
                    /\ pc' = "done"
                    /\ errors' = errors \cup passed
                    /\ UNCHANGED lastError
                 \/ /\ cdnJson' \in {cdnJson, InvalidCdn}
                    /\ cdnHist' = NoHist
                    /\ Fatal("Error writing cdn.json")
                    /\ errors' = errors \cup passed \cup {<<"PublishURLs", "WriteFile">>}
    /\ UNCHANGED <<tools, dataDir, idFile, static, upstream, newManifestID, trackedID,
                   fileList, runs, toolCalls, prev, idAtStart>>

\* main is started again once the previous run has ended; the depot may
\* have a new manifest by then
StartRun ==
    /\ pc \in {"done", "fatal"}
    /\ runs < MaxRuns
    /\ runs' = runs + 1
    /\ prev' = [ran |-> TRUE, ok |-> pc = "done",
                passed |-> "FetchDirectoryListing" \in stagesRun,
                upstream |-> upstream]
    /\ upstream' \in UpstreamIDs
    /\ StartOfRun
    /\ ppc' = "idle"
    /\ perr' = ""
    /\ fnumbers' = <<>>
    /\ vpks' = <<>>
    /\ UNCHANGED <<listing, requiredPrefix, vpkBaseDir, plog, outFile>>
    /\ UNCHANGED <<varsFiles, cdnHist>>

Next ==
    \/ CheckDependencies /\ UNCHANGED <<goos, varsParser, varsRunner, varsPipe>>
    \/ FetchManifest /\ UNCHANGED <<goos, varsParser, varsRunner, varsPipe>>
    \/ ReadLocalIdentity /\ UNCHANGED <<goos, varsParser, varsRunner, varsPipe>>
    \/ CompareIdentity /\ UNCHANGED <<goos, varsParser, varsRunner, varsPipe>>
    \/ PersistIdentity /\ UNCHANGED <<goos, varsParser, varsRunner, varsPipe>>
    \/ FetchDirectoryListing /\ UNCHANGED <<goos, varsParser, varsRunner, varsPipe>>
    \/ GenerateVPKList /\ UNCHANGED <<goos, varsRunner, varsPipe>>
    \/ FetchSegments /\ UNCHANGED <<goos, varsParser, varsRunner, varsPipe>>
    \/ ExtractTargetEntries /\ UNCHANGED <<goos, varsParser, varsRunner, varsPipe>>
    \/ FindAndRenameFiles /\ UNCHANGED <<goos, varsParser, varsRunner, varsPipe>>
    \/ AddImagesToCDN /\ UNCHANGED <<goos, varsParser, varsRunner, varsPipe>>
    \/ StartRun /\ UNCHANGED <<goos, varsRunner, varsPipe>>

Spec == Init /\ [][Next]_vars

\* ------------------------------------------------------------------------
\* addImagesToCDN called again and again (SpecCDN)
\* ------------------------------------------------------------------------
\* most calls of addImagesToCDN in a behaviour
MaxPublishes == 3

StaticNames == {<<"a", ".", "p", "n", "g">>, <<"b", ".", "P", "N", "G">>, <<"c", ".", "t", "x", "t">>}

StaticDirs == {NoStatic} \cup {StaticDir(f) : f \in SUBSET StaticNames}

OldMember == <<<<"s", "t", "a", "t", "i", "c", "/", "o", "l", "d", ".", "p", "n", "g">>, baseURL \o <<"s", "t", "a", "t", "i", "c", "/", "o", "l", "d", ".", "p", "n", "g">>>>

\* an entry for static/a.png that an earlier base URL left
StaleMember == <<<<"s", "t", "a", "t", "i", "c", "/", "a", ".", "p", "n", "g">>, <<"https://old.example/">> \o <<"s", "t", "a", "t", "i", "c", "/", "a", ".", "p", "n", "g">>>>

CdnFiles ==
    {NoCdn, InvalidCdn, CdnObject(<<>>), CdnObject(<<OldMember>>),
     CdnObject(<<StaleMember, OldMember>>),
     CdnObject(<<OldMember, <<<<"s", "t", "a", "t", "i", "c", "/", "o", "l", "d", ".", "p", "n", "g">>, <<"https://old.example/">> \o <<"s", "t", "a", "t", "i", "c", "/", "o", "l", "d", ".", "p", "n", "g">>>>>>)}

InitCDN ==
    /\ goos \in GOOS
    /\ ParserIdle
    /\ RunnerIdle
    /\ PipeIdle
    /\ tools = AllTools
    /\ dataDir = {}
    /\ idFile = NoFile
    /\ static \in StaticDirs
    /\ cdnJson \in CdnFiles
    /\ pc = "PublishURLs"
    /\ upstream = <<>>
    /\ newManifestID = <<>>
    /\ trackedID = <<>>
    /\ fileList = <<>>
    /\ lastError = "nil"
    /\ runs = 1
    /\ last = "none"
    /\ stagesRun = {}
    /\ errors = {}
    /\ toolCalls = {}
    /\ prev = [ran |-> FALSE, ok |-> FALSE, passed |-> FALSE, upstream |-> <<>>]
    /\ idAtStart = NoFile
    /\ cdnHist = NoHist

\* addImagesToCDN is called once more, over the same directory or after
\* the directory has changed
PublishAgain ==
    /\ pc \in {"done", "fatal"}
    /\ runs < MaxPublishes
    /\ runs' = runs + 1
    /\ pc' = "PublishURLs"
    /\ lastError' = "nil"
    /\ static' \in StaticDirs
    /\ stagesRun' = {}
    /\ errors' = {}
    /\ UNCHANGED <<tools, dataDir, idFile, cdnJson, upstream, newManifestID, trackedID,
                   fileList, last, toolCalls, prev, idAtStart, cdnHist>>

NextCDN ==
    \/ AddImagesToCDN /\ UNCHANGED <<goos, varsParser, varsRunner, varsPipe>>
    \/ PublishAgain /\ UNCHANGED <<goos, varsParser, varsRunner, varsPipe>>

SpecCDN == InitCDN /\ [][NextCDN]_vars

\* the relative path of a file of static/
RelativePath(os, name) == <<"s", "t", "a", "t", "i", "c">> \o <<Separator(os)>> \o name

\* C8: addImagesToCDN is idempotent: called twice over an unchanged static,
\* the second call writes the cdn.json the first one wrote (the same map,
\* and the same text); every key present before a call is present after
\* it, and every .png file under static maps to baseURL followed by its
\* relative path.
C8_MergeIdempotent ==
    /\ \A i \in 1..Len(cdnHist) :
          LET before == Unmarshal(cdnHist[i].before)
              after  == Unmarshal(cdnHist[i].after)
          IN  /\ DOMAIN before \subseteq DOMAIN after
              /\ \A n \in cdnHist[i].static.files :
                    HasSuffix(n, <<".", "p", "n", "g">>) =>
                        /\ RelativePath(goos, n) \in DOMAIN after
                        /\ after[RelativePath(goos, n)] = baseURL \o RelativePath(goos, n)
    /\ (/\ Len(cdnHist) = 2
        /\ cdnHist[1].static = cdnHist[2].static
        /\ cdnHist[2].before = cdnHist[1].after)
       => /\ Unmarshal(cdnHist[2].after) = Unmarshal(cdnHist[1].after)
          /\ cdnHist[2].after = cdnHist[1].after

C8_Witness ==
    /\ Len(cdnHist) = 2
    /\ cdnHist[1].static = cdnHist[2].static
    /\ cdnHist[1].static.files = StaticNames
    /\ cdnHist[1].before = CdnObject(<<StaleMember, OldMember>>)
    /\ cdnHist[2].before = cdnHist[1].after
    /\ cdnHist[2].after = cdnHist[1].after
    /\ cdnHist[1].after # cdnHist[1].before

\* ------------------------------------------------------------------------
\* Properties of the runs of main (Spec)
\* ------------------------------------------------------------------------
StagesAfterGate ==
    {"PersistIdentity", "FetchDirectoryListing", "ResolveSegments", "FetchSegments",
     "ExtractTargetEntries", "RenameOutputs", "PublishURLs"}

\* C1: when the previous run completed successfully and the depot still has
\* the identity it had then, this run executes no stage after the gate (no
\* listing fetch, segment fetch, extraction, rename or publish) and
\* manifest_id.txt stays what it was when the run started.
C1_IdentityGateIdempotence ==
    (prev.ran /\ prev.ok /\ prev.upstream = upstream) =>
        /\ stagesRun \cap StagesAfterGate = {}
        /\ idFile = idAtStart
        /\ pc \notin {"blocked"} \cup StagesAfterGate

C1_Witness ==
    /\ prev.ran /\ prev.ok /\ prev.upstream = upstream
    /\ pc = "done"
    /\ last = "CompareIdentity"
    /\ idFile = File(upstream)
    /\ cdnHist # NoHist

\* the errors the code logs or ignores and goes on after
PassedOver ==
    {<<"RenameOutputs", "WalkDir">>, <<"PublishURLs", "WalkDir">>,
     <<"PublishURLs", "Unmarshal">>}

NoLaterStage(stage) ==
    /\ pc = "fatal"
    /\ last = stage
    /\ \A st \in stagesRun : StageIndex(st) <= StageIndex(stage)

StoredIdentity == IF idAtStart.exists THEN TrimSpace(idAtStart.data) ELSE <<>>

\* C3: manifest_id.txt changes only in the PersistIdentity stage of a run
\* that fetched the manifest successfully and found the stored identity
\* empty, absent or different from the new one; a write that succeeds leaves
\* exactly the new identity in it.
C3_IdentityFileWrites ==
    [][idFile' # idFile =>
          /\ pc = "PersistIdentity"
          /\ "FetchManifest" \in stagesRun
          /\ lastError = "nil"
          /\ newManifestID # <<>>
          /\ (StoredIdentity = <<>> \/ StoredIdentity # newManifestID)
          /\ (pc' # "fatal" => idFile' = File(newManifestID))]_vars

C3_Witness ==
    /\ last = "PersistIdentity"
    /\ pc = "FetchDirectoryListing"
    /\ idAtStart = File(<<"5", "\n">>)
    /\ newManifestID = <<"1", "2">>
    /\ idFile = File(<<"1", "2">>)

DeadlineStages == {"FetchManifest", "FetchDirectoryListing"}

NoDeadlineStages == {"ResolveSegments", "FetchSegments", "ExtractTargetEntries"}

\* C10 (as stated): only the manifest-only fetch runs under the deadline;
\* every later stage runs without one and cannot fail with a timeout.
C10_OnlyFirstStageDeadline ==
    /\ \A c \in toolCalls : c[2].hasDeadline => c[1] = "FetchManifest"
    /\ lastError = "command timed out" => last = "FetchManifest"

\* C10 (amended): the two stages that call RunCommand, the manifest-only
\* fetch and the directory-listing fetch, run under the 60-second deadline
\* and are the only ones that can fail with a timeout; the later stages
\* (directory dump, segment fetch, extraction) run without a deadline and
\* end only when the external tool ends: with a tool that never ends the
\* run stays in that stage.
C10_RunCommandStagesDeadline ==
    /\ \A c \in toolCalls :
          /\ c[1] \in DeadlineStages => c[2] = [hasDeadline |-> TRUE, timeout |-> 60]
          /\ c[1] \notin DeadlineStages => c[1] \in NoDeadlineStages /\ ~c[2].hasDeadline
    /\ \A st \in stagesRun \cap (DeadlineStages \cup NoDeadlineStages) :
          \E c \in toolCalls : c[1] = st
          \/ (pc = "fatal" /\ last = st /\ <<st, "CreateTemp">> \in errors)
    /\ lastError = "command timed out" => (pc = "fatal" /\ last \in DeadlineStages)
    /\ pc = "blocked" => last \in NoDeadlineStages
    /\ pc \in DeadlineStages \cup NoDeadlineStages => lastError = "nil"

C10_Witness ==
    /\ pc = "fatal"
    /\ last = "FetchDirectoryListing"
    /\ lastError = "command timed out"
    /\ <<"FetchDirectoryListing", [hasDeadline |-> TRUE, timeout |-> 60]>> \in toolCalls

\* this run has written manifest_id.txt and gone on to the listing fetch
PassedGate == pc = "FetchDirectoryListing" \/ "FetchDirectoryListing" \in stagesRun

\* the previous run went past PersistIdentity and then aborted, and the
\* depot still has the identity it had then
AbortedAfterPersist == prev.ran /\ prev.passed /\ ~prev.ok /\ prev.upstream = upstream

\* C12: the identity is persisted before any download: in a run that passes
\* the gate with upstream identity X, manifest_id.txt holds X from the start
\* of FetchDirectoryListing on, also when the run aborts in a later stage;
\* and the run that follows such an aborted run with the same upstream
\* identity executes no stage after the gate and leaves manifest_id.txt and
\* cdn.json alone.
C12_PersistedBeforeDownload ==
    /\ PassedGate => idFile = File(upstream)
    /\ AbortedAfterPersist =>
          /\ stagesRun \cap StagesAfterGate = {}
          /\ pc \notin {"blocked"} \cup StagesAfterGate
          /\ idFile = idAtStart

\* in this run ParseVPKDir has returned without an error and with no
\* fnumber, and GenerateVPKList has returned
EmptyResult ==
    /\ ppc = "returned"
    /\ perr \notin {"error generating manifest", "error parsing manifest"}
    /\ fnumbers = <<>>

StagesAfterResolve ==
    <<"FetchSegments", "ExtractTargetEntries", "RenameOutputs", "PublishURLs">>

\* C13: when the resolver has collected no fnumber, GenerateVPKList returns
\* success and the list file is not written (it is the empty file main
\* created); the run does not stop there: FetchSegments executes next with
\* the empty list file, then ExtractTargetEntries, RenameOutputs and
\* PublishURLs, each once the one before it has ended without a fatal
\* error, and the run ends only after PublishURLs or in a failure of one of
\* these four stages.
C13_EmptyResultShortCircuit ==
    EmptyResult =>
        /\ perr = ""
        /\ fileList = <<>>
        /\ vpks = <<>>
        /\ "ResolveSegments" \in stagesRun
        /\ \A e \in errors : e[1] # "ResolveSegments"
        /\ pc = "FetchSegments" \/ "FetchSegments" \in stagesRun
        /\ pc \in Range(StagesAfterResolve) \cup {"done", "fatal", "blocked"}
        /\ \A i \in 2..Len(StagesAfterResolve) :
              StagesAfterResolve[i] \in stagesRun => StagesAfterResolve[i - 1] \in stagesRun
        /\ pc = "done" => Range(StagesAfterResolve) \subseteq stagesRun
        /\ pc \in {"fatal", "blocked"} =>
              /\ last \in Range(StagesAfterResolve)
              /\ pc = "fatal" => \E e \in errors \ PassedOver : e[1] = last

C13_Witness ==
    /\ EmptyResult
    /\ perr = ""
    /\ pc = "done"
    /\ last = "PublishURLs"
    /\ fileList = <<>>
    /\ Range(StagesAfterResolve) \subseteq stagesRun

\* ------------------------------------------------------------------------
\* PipeOutput, step by step: the program, the two reader goroutines and
\* cmd.Wait (SpecPipe)
\* ------------------------------------------------------------------------
\* the programs PipeOutput runs: exec.Command gives them no deadline
PipeProcs ==
    {p \in Procs : /\ p.outCut = 0
                   /\ p.errCut = 0
                   /\ (p.terminates => p.duration = Timeout - 30)}

\* the lines the program writes to a stream in its whole life
LinesOf(proc, s) == IF s = "stdout" THEN proc.out ELSE proc.err

InitPipe ==
    /\ goos \in GOOS
    /\ ParserIdle
    /\ RunnerIdle
    /\ spc = "start"
    /\ sproc \in PipeProcs
    /\ swritten = [s \in Streams |-> 0]
    /\ sexited = FALSE
    /\ spipe = [s \in Streams |-> <<>>]
    /\ sclosed = FALSE
    /\ sbuf = [s \in Streams |-> <<>>]
    /\ sreader = [s \in Streams |-> "none"]
    /\ sink = <<>>
    /\ sresult = "none"
    /\ MainIdle

\* part_000:87-117: the pipes are made, cmd.Start launches the program and
\* the two goroutines are started; a program that cannot start ends
\* PipeOutput with an error
PipeStart ==
    /\ spc = "start"
    /\ IF sproc.launch
       THEN /\ spc' = "waiting"
            /\ sreader' = [s \in Streams |-> "scanning"]
            /\ UNCHANGED sresult
       ELSE /\ spc' = "returned"
            /\ sresult' = PipeOutput(sproc)
            /\ UNCHANGED sreader
    /\ UNCHANGED <<sproc, swritten, sexited, spipe, sclosed, sbuf, sink>>

\* the program writes its next line to one of its streams
ProcWrite(s) ==
    /\ spc = "waiting"
    /\ ~sexited
    /\ swritten[s] < Len(LinesOf(sproc, s))
    /\ swritten' = [swritten EXCEPT ![s] = @ + 1]
    /\ spipe' = [spipe EXCEPT ![s] = Append(@, LinesOf(sproc, s)[swritten[s] + 1])]
    /\ UNCHANGED <<spc, sproc, sexited, sclosed, sbuf, sreader, sink, sresult>>

\* the program has written all its lines and exits
ProcExit ==
    /\ spc = "waiting"
    /\ ~sexited
    /\ sproc.terminates
    /\ \A s \in Streams : swritten[s] = Len(LinesOf(sproc, s))
    /\ sexited' = TRUE
    /\ UNCHANGED <<spc, sproc, swritten, spipe, sclosed, sbuf, sreader, sink, sresult>>

\* part_000:105-106, 113-114: scanner.Scan with no line buffered reads from
\* the pipe what is there, some or all of it
ReaderRead(s) ==
    /\ sreader[s] = "scanning"
    /\ sbuf[s] = <<>>
    /\ ~sclosed
    /\ spipe[s] # <<>>
    /\ \E k \in 1..Len(spipe[s]) :
          /\ sbuf' = [sbuf EXCEPT ![s] = SubSeq(spipe[s], 1, k)]
          /\ spipe' = [spipe EXCEPT ![s] = SubSeq(@, k + 1, Len(@))]
    /\ UNCHANGED <<spc, sproc, swritten, sexited, sclosed, sreader, sink, sresult>>

\* part_000:107, 115: log.Printf of the line scanner.Text() holds
ReaderLog(s) ==
    /\ sreader[s] = "scanning"
    /\ sbuf[s] # <<>>
    /\ sink' = Append(sink, <<s, Head(sbuf[s])>>)
    /\ sbuf' = [sbuf EXCEPT ![s] = Tail(@)]
    /\ UNCHANGED <<spc, sproc, swritten, sexited, spipe, sclosed, sreader, sresult>>

\* scanner.Scan returns false and the goroutine ends: at the end of the
\* stream (the program has exited and the pipe is empty) or on the read
\* error of a pipe that cmd.Wait has closed
ReaderEnd(s) ==
    /\ sreader[s] = "scanning"
    /\ sbuf[s] = <<>>
    /\ sclosed \/ (sexited /\ spipe[s] = <<>>)
    /\ sreader' = [sreader EXCEPT ![s] = "ended"]
    /\ UNCHANGED <<spc, sproc, swritten, sexited, spipe, sclosed, sbuf, sink, sresult>>

\* part_000:119-123: cmd.Wait returns once the program has exited; it
\* closes the read ends of the two pipes, whatever they still hold, and
\* PipeOutput returns without waiting for the goroutines
WaitReturn ==
    /\ spc = "waiting"
    /\ sexited
    /\ sclosed' = TRUE
    /\ spipe' = [s \in Streams |-> <<>>]
    /\ sresult' = PipeOutput(sproc)
    /\ spc' = "returned"
    /\ UNCHANGED <<sproc, swritten, sexited, sbuf, sreader, sink>>

NextPipe ==
    \/ PipeStart /\ UNCHANGED <<goos, varsParser, varsRunner, varsFiles, varsMain, varsObs>>
    \/ (\E s \in Streams : ProcWrite(s))
          /\ UNCHANGED <<goos, varsParser, varsRunner, varsFiles, varsMain, varsObs>>
    \/ ProcExit /\ UNCHANGED <<goos, varsParser, varsRunner, varsFiles, varsMain, varsObs>>
    \/ (\E s \in Streams : ReaderRead(s))
          /\ UNCHANGED <<goos, varsParser, varsRunner, varsFiles, varsMain, varsObs>>
    \/ (\E s \in Streams : ReaderLog(s))
          /\ UNCHANGED <<goos, varsParser, varsRunner, varsFiles, varsMain, varsObs>>
    \/ (\E s \in Streams : ReaderEnd(s))
          /\ UNCHANGED <<goos, varsParser, varsRunner, varsFiles, varsMain, varsObs>>
    \/ WaitReturn /\ UNCHANGED <<goos, varsParser, varsRunner, varsFiles, varsMain, varsObs>>

SpecPipe == InitPipe /\ [][NextPipe]_vars

\* the lines of a stream that have been logged, in the order of the log
Logged(s) ==
    LET mine == SelectSeq(sink, LAMBDA e : e[1] = s)
    IN  [i \in 1..Len(mine) |-> mine[i][2]]

\* C11: when PipeOutput reports completion of a program it started, every
\* line the program wrote to standard output and to standard error has been
\* logged: both readers were drained, no trailing output is lost.
C11_OutputDrained ==
    (spc = "returned" /\ sproc.launch) =>
        \A s \in Streams : Logged(s) = LinesOf(sproc, s)

====
